---------------------------- MODULE Spec2Model ----------------------------
(***************************************************************************)
(* Model of src/net/connection.rs (minifto): one Connection object, the    *)
(* socket behind its descriptor, the peer's byte stream and the reactor's  *)
(* registration table.                                                     *)
(*                                                                         *)
(* Buffer (src/net/buffer.rs) and EventLoop (src/net/event_loop.rs) are    *)
(* not part of the sources at hand; their operations are modelled from the *)
(* interface the specification gives for them.                             *)
(***************************************************************************)
EXTENDS Integers, Sequences, FiniteSets, TLC

VARIABLES
    obj,            \* "none" | "live" | "released" | "panicked"
    fd,             \* Connection.fd
    state,          \* Connection.state
    input_buf,      \* Connection.input_buf (bytes held by the Buffer)
    output_buf,     \* Connection.output_buf
    revents,        \* Connection.revents
    registered,     \* descriptors the reactor holds a registration for
    sockbuf,        \* bytes received on the descriptor and not yet read
    wire,           \* bytes the peer has still to send
    sockShut,       \* a shutdown(fd, Both) syscall has succeeded
    shutCalled,     \* history: shutdown() or deregister() was called
    call,           \* history: the last operation, the mask given to a dispatch, the result,
                    \*   whether it was a dispatch repeating the one before with nothing to read
    trace,          \* history: the effects of the last operation, in order
    msgs,           \* history: results of the read_msg() calls of an undisturbed run
    clean,          \* history: only read_msg() has touched the input buffer, no read failed
    delivered,      \* history: the bytes handed to the application so far
    stream,         \* the whole byte stream of the peer
    openFiles,      \* descriptors send_file() has opened and nothing has closed
    fdCloses        \* close() calls made on Connection.fd

vars == <<obj, fd, state, input_buf, output_buf, revents, registered, sockbuf,
          wire, sockShut, shutCalled, call, trace, msgs, clean, delivered, stream, openFiles, fdCloses>>

----------------------------------------------------------------------------
(* Bounds *)

MaxFd == 1          \* raw descriptors range over -1 .. MaxFd
MaxLen == 2         \* longest generated peer stream
MaxReads == 3       \* read_msg() results kept in the history
MaxFiles == 1       \* send_file() calls that get as far as opening the file
MaxSize == 1        \* largest file size

----------------------------------------------------------------------------
(* Readiness masks: the bits of EpollFlags the decoder looks at *)

EPOLLIN == 1
EPOLLPRI == 2
EPOLLOUT == 4
EPOLLERR == 8
EPOLLHUP == 16

Masks == 0 .. (2 * EPOLLHUP - 1)

RECURSIVE BitAnd(_, _)
BitAnd(a, b) ==
    IF a = 0 \/ b = 0 THEN 0
    ELSE (IF a % 2 = 1 /\ b % 2 = 1 THEN 1 ELSE 0) + 2 * BitAnd(a \div 2, b \div 2)

BitOr(a, b) == a + b - BitAnd(a, b)

\* (x & y).bits() for two masks, tabulated once.
AndTable == [x \in Masks |-> [y \in Masks |-> BitAnd(x, y)]]

Intersect(x, y) == AndTable[x][y]

InOrPri == BitOr(EPOLLIN, EPOLLPRI)

is_readable(m) == Intersect(m, InOrPri) > 0

is_writeable(m) == Intersect(m, EPOLLOUT) > 0

\* is_close with the test of the input-ready bit not negated.
is_close_no_negation(m) == Intersect(m, EPOLLHUP) > 0 /\ Intersect(m, EPOLLIN) > 0

is_close(m) == Intersect(m, EPOLLHUP) > 0 /\ ~(Intersect(m, EPOLLIN) > 0)

\* is_error testing the hangup bit in place of the error bit.
is_error_wrong_bit(m) == Intersect(m, EPOLLHUP) > 0

is_error(m) == Intersect(m, EPOLLERR) > 0

is_hup(m) == Intersect(m, EPOLLHUP) > 0

----------------------------------------------------------------------------
(* Option<T>: None is the empty sequence, Some(x) the one-element sequence *)

None == <<>>

Some(x) == <<x>>

CR == "\r"
LF == "\n"

----------------------------------------------------------------------------
(* Buffer, from its interface: read pulls what the descriptor holds        *)
(* (stopping at would-block), reports zero bytes for no data and for an    *)
(* orderly close, and no result for an error.                              *)

BufferNew == <<>>

BufferRead(buf, sock, err) ==
    IF err THEN [buf |-> buf, sock |-> sock, res |-> None]
    ELSE [buf |-> buf \o sock, sock |-> <<>>, res |-> Some(Len(sock))]

\* Index of the CR of the first CRLF pair of buf, 0 when there is none.
CrlfAt(buf) ==
    LET hits == {i \in 1 .. (Len(buf) - 1) : buf[i] = CR /\ buf[i + 1] = LF}
    IN IF hits = {} THEN 0 ELSE CHOOSE i \in hits : \A j \in hits : i <= j

get_crlf_line(buf) ==
    LET i == CrlfAt(buf)
    IN IF i = 0 THEN [ret |-> None, buf |-> buf]
       ELSE [ret |-> Some(SubSeq(buf, 1, i - 1)), buf |-> SubSeq(buf, i + 2, Len(buf))]

BufferDrain(buf) == [ret |-> buf, buf |-> <<>>]

----------------------------------------------------------------------------
(* Connection *)

connected == state # "Closed"

NoCall == [op |-> "none", mask |-> 0, st |-> "none", msg |-> None, again |-> FALSE]

Call(op, st, msg) == [op |-> op, mask |-> 0, st |-> st, msg |-> msg, again |-> FALSE]

\* new with the assertion weakened to fd >= 0.
new_accepts_zero(rawfd, kind) ==
    IF ~(rawfd >= 0) THEN [ok |-> FALSE, trace |-> <<"assert">>]
    ELSE IF kind = "notsock" THEN [ok |-> FALSE, trace |-> <<"assert", "getsockname">>]
    ELSE IF kind # "connected"
         THEN [ok |-> FALSE, trace |-> <<"assert", "getsockname", "getpeername">>]
    ELSE [ok |-> TRUE, trace |-> <<"assert", "getsockname", "getpeername">>]

\* Connection::new: the assertion, the two address queries, the fields.
\* kind is what the descriptor refers to: a connected socket, an
\* unconnected socket, or no socket at all.
new(rawfd, kind) ==
    IF ~(rawfd > 0) THEN [ok |-> FALSE, trace |-> <<"assert">>]
    ELSE IF kind = "notsock" THEN [ok |-> FALSE, trace |-> <<"assert", "getsockname">>]
    ELSE IF kind # "connected"
         THEN [ok |-> FALSE, trace |-> <<"assert", "getsockname", "getpeername">>]
    ELSE [ok |-> TRUE, trace |-> <<"assert", "getsockname", "getpeername">>]

\* The initial state taken to be Reading.
NewStateReading == "Reading"

NewState == "Ready"

NewRevents == 0

\* The fields a successful or failed construction leaves.
Construct(op, pre, rawfd, kind) ==
    LET r == new(rawfd, kind)
    IN /\ obj' = IF r.ok THEN "live" ELSE "panicked"
       /\ fd' = IF r.ok THEN rawfd ELSE fd
       /\ state' = IF r.ok THEN NewState ELSE state
       /\ input_buf' = IF r.ok THEN BufferNew ELSE input_buf
       /\ output_buf' = IF r.ok THEN BufferNew ELSE output_buf
       /\ revents' = IF r.ok THEN NewRevents ELSE revents
       /\ trace' = pre \o r.trace
       /\ call' = Call(op, IF r.ok THEN "ok" ELSE "panic", None)
       /\ UNCHANGED <<registered, sockbuf, wire, sockShut, shutCalled, msgs, clean,
                      delivered, stream, openFiles, fdCloses>>

RawFds == (0 - 1) .. MaxFd

Kinds == {"connected", "unconnected", "notsock"}

NewRaw(rawfd, kind) ==
    /\ obj = "none"
    /\ Construct("new", <<>>, rawfd, kind)

\* Descriptors a socket() or accept4() call can return: 0 stays with the
\* standard input of the process.
SockFds == 1 .. MaxFd

\* Connection::connect: socket(), the address parse, connect(), new().
\* A refused connect leaves the socket unconnected; an interrupted one goes
\* on in the background and may or may not be established by the time the
\* peer address is asked for.
ConnectOutcomes == {"ok", "refused", "interrupted"}

Connect(sockOk, sockfd, addrOk, outcome, established) ==
    /\ obj = "none"
    /\ IF ~sockOk
       THEN /\ obj' = "panicked"
            /\ trace' = <<"socket">>
            /\ call' = Call("connect", "panic", None)
            /\ UNCHANGED <<fd, state, input_buf, output_buf, revents, registered,
                           sockbuf, wire, sockShut, shutCalled, msgs, clean,
                           delivered, stream, openFiles, fdCloses>>
       ELSE IF ~addrOk
       THEN /\ obj' = "panicked"
            /\ trace' = <<"socket", "from_str">>
            /\ call' = Call("connect", "panic", None)
            /\ UNCHANGED <<fd, state, input_buf, output_buf, revents, registered,
                           sockbuf, wire, sockShut, shutCalled, msgs, clean,
                           delivered, stream, openFiles, fdCloses>>
       ELSE LET kind == IF outcome = "ok" \/ (outcome = "interrupted" /\ established)
                        THEN "connected" ELSE "unconnected"
                pre == <<"socket", "from_str",
                         IF outcome = "ok" THEN "connect_ok" ELSE "connect_err">>
            IN Construct("connect", pre, sockfd, kind)

\* Connection::accept: accept4(), two setsockopt(), new().
Accept(acceptOk, newfd) ==
    /\ obj = "none"
    /\ IF ~acceptOk
       THEN /\ obj' = "panicked"
            /\ trace' = <<"accept4">>
            /\ call' = Call("accept", "panic", None)
            /\ UNCHANGED <<fd, state, input_buf, output_buf, revents, registered,
                           sockbuf, wire, sockShut, shutCalled, msgs, clean,
                           delivered, stream, openFiles, fdCloses>>
       ELSE Construct("accept", <<"accept4", "setsockopt", "setsockopt">>, newfd,
                      "connected")

set_revents(m) ==
    /\ obj = "live"
    /\ revents' = m
    /\ call' = Call("set_revents", "none", None)
    /\ trace' = <<>>
    /\ UNCHANGED <<obj, fd, state, input_buf, output_buf, registered, sockbuf, wire,
                   sockShut, shutCalled, msgs, clean, delivered, stream, openFiles, fdCloses>>

\* dispatch with the error and close tests moved ahead of the readable branch.
dispatch_close_first(m, buf, sock, err) ==
    LET rd == is_readable(m)
        r == IF rd THEN BufferRead(buf, sock, err)
             ELSE [buf |-> buf, sock |-> sock, res |-> None]
        s0 == "Ready"
        s1 == IF is_error(m) THEN "Closed" ELSE s0
        s2 == IF is_close(m) THEN "Closed" ELSE s1
    IN [state |-> s2, buf |-> r.buf, sock |-> r.sock, read |-> rd,
        trace |-> <<"state:=Ready">>
                  \o (IF is_error(m) THEN <<"state:=Closed (error)">> ELSE <<>>)
                  \o (IF is_close(m) THEN <<"state:=Closed (close)">> ELSE <<>>)
                  \o (IF rd THEN <<"read">> ELSE <<>>)]

\* dispatch emptying the input buffer when its read brings no bytes.
dispatch_clears_on_empty_read(m, buf, sock, err) ==
    LET rd == is_readable(m)
        r == IF rd THEN BufferRead(buf, sock, err)
             ELSE [buf |-> buf, sock |-> sock, res |-> None]
        s0 == "Ready"
        s1 == IF is_error(m) THEN "Closed" ELSE s0
        s2 == IF is_close(m) THEN "Closed" ELSE s1
    IN [state |-> s2, buf |-> IF rd /\ r.res = Some(0) THEN <<>> ELSE r.buf,
        sock |-> r.sock, read |-> rd,
        trace |-> <<"state:=Ready">>
                  \o (IF rd THEN <<"read">> ELSE <<>>)
                  \o (IF is_error(m) THEN <<"state:=Closed (error)">> ELSE <<>>)
                  \o (IF is_close(m) THEN <<"state:=Closed (close)">> ELSE <<>>)]

\* Connection::dispatch as a function of the mask, the buffer, the bytes on
\* the descriptor and whether the read fails.
dispatch(m, buf, sock, err) ==
    LET rd == is_readable(m)
        r == IF rd THEN BufferRead(buf, sock, err)
             ELSE [buf |-> buf, sock |-> sock, res |-> None]
        s0 == "Ready"
        s1 == IF is_error(m) THEN "Closed" ELSE s0
        s2 == IF is_close(m) THEN "Closed" ELSE s1
    IN [state |-> s2, buf |-> r.buf, sock |-> r.sock, read |-> rd,
        trace |-> <<"state:=Ready">>
                  \o (IF rd THEN <<"read">> ELSE <<>>)
                  \o (IF is_error(m) THEN <<"state:=Closed (error)">> ELSE <<>>)
                  \o (IF is_close(m) THEN <<"state:=Closed (close)">> ELSE <<>>)]

Dispatch(m, err) ==
    /\ obj = "live"
    /\ LET d == dispatch(m, input_buf, sockbuf, err)
       IN /\ state' = d.state
          /\ input_buf' = d.buf
          /\ sockbuf' = d.sock
          /\ trace' = d.trace
          /\ call' = [Call("dispatch", d.state, None) EXCEPT
                          !.mask = m,
                          !.again = /\ call.op = "dispatch"
                                    /\ call.mask = m
                                    /\ (d.read => sockbuf = <<>>)]
          /\ clean' = (clean /\ ~d.read)
          /\ msgs' = IF d.read THEN <<>> ELSE msgs
    /\ UNCHANGED <<obj, fd, output_buf, revents, registered, wire, sockShut,
                   shutCalled, delivered, stream, openFiles, fdCloses>>

register_read ==
    /\ obj = "live"
    /\ registered' = registered \cup {fd}
    /\ call' = Call("register_read", "none", None)
    /\ trace' = <<"reregister">>
    /\ UNCHANGED <<obj, fd, state, input_buf, output_buf, revents, sockbuf, wire,
                   sockShut, shutCalled, msgs, clean, delivered, stream, openFiles, fdCloses>>

\* shutdown assigning Closed only when the syscall succeeds.
shutdown_closed_on_success(ok) ==
    [state |-> IF ok THEN "Closed" ELSE state, shut |-> sockShut \/ ok,
     trace |-> <<"state:=Closed", IF ok THEN "shutdown_ok" ELSE "shutdown_err">>]

\* Connection::shutdown as a function of whether the syscall succeeds.
shutdown(ok) ==
    [state |-> "Closed", shut |-> sockShut \/ ok,
     trace |-> <<"state:=Closed", IF ok THEN "shutdown_ok" ELSE "shutdown_err">>]

Shutdown(ok) ==
    /\ obj = "live"
    /\ LET s == shutdown(ok)
       IN /\ state' = s.state
          /\ sockShut' = s.shut
          /\ trace' = s.trace
    /\ shutCalled' = TRUE
    /\ call' = Call("shutdown", "none", None)
    /\ UNCHANGED <<obj, fd, input_buf, output_buf, revents, registered, sockbuf, wire,
                   msgs, clean, delivered, stream, openFiles, fdCloses>>

\* What the reactor answers to a removal: the registration was there or not.
DeregisterMark == IF fd \in registered THEN "deregister (registered)"
                  ELSE "deregister (absent)"

\* deregister shutting the socket down without asking the reactor.
deregister_skips_reactor(ok) ==
    /\ obj = "live"
    /\ LET s == shutdown(ok)
       IN /\ state' = s.state
          /\ sockShut' = s.shut
          /\ trace' = <<DeregisterMark>> \o s.trace
    /\ shutCalled' = TRUE
    /\ call' = Call("deregister", "none", None)
    /\ UNCHANGED <<obj, fd, input_buf, output_buf, revents, registered, sockbuf, wire,
                   msgs, clean, delivered, stream, openFiles, fdCloses>>

deregister(ok) ==
    /\ obj = "live"
    /\ registered' = registered \ {fd}
    /\ LET s == shutdown(ok)
       IN /\ state' = s.state
          /\ sockShut' = s.shut
          /\ trace' = <<DeregisterMark>> \o s.trace
    /\ shutCalled' = TRUE
    /\ call' = Call("deregister", "none", None)
    /\ UNCHANGED <<obj, fd, input_buf, output_buf, revents, sockbuf, wire, msgs, clean,
                   delivered, stream, openFiles, fdCloses>>

\* What the path given to send_file names: a file the process may read and
\* write, one it may only read, or nothing.
FilePerms == {"rw", "ro", "missing"}

FileSizes == 0 .. MaxSize

\* Connection::send_file: open(file, O_RDWR), fstat, one sendfile of the
\* whole size, Some(size transferred).  sent is what the socket accepts, ok
\* whether the sendfile syscall succeeds.  The descriptor of the file is
\* not closed on any path.
SendFile(perm, size, sent, ok) ==
    /\ obj = "live"
    /\ openFiles < MaxFiles
    /\ sent \in 0 .. size
    /\ IF perm # "rw"
       THEN /\ obj' = "panicked"
            /\ trace' = <<IF perm = "ro" THEN "file ro" ELSE "file missing",
                          "open(O_RDWR) err">>
            /\ call' = Call("send_file", "panic", None)
            /\ UNCHANGED openFiles
       ELSE IF ~ok
       THEN /\ obj' = "panicked"
            /\ trace' = <<"file rw", "open(O_RDWR) ok", "fstat", "sendfile err">>
            /\ call' = Call("send_file", "panic", None)
            /\ openFiles' = openFiles + 1
       ELSE /\ obj' = obj
            /\ trace' = <<"file rw", "open(O_RDWR) ok", "fstat",
                          IF sent = size THEN "sendfile whole" ELSE "sendfile part">>
            /\ call' = Call("send_file", "ok", Some(sent))
            /\ openFiles' = openFiles + 1
    /\ UNCHANGED <<fd, state, input_buf, output_buf, revents, registered, sockbuf,
                   wire, sockShut, shutCalled, msgs, clean, delivered, stream,
                   fdCloses>>

WriteOutcomes == {"full", "partial", "wouldblock", "error"}

\* send appending to the output buffer what the write did not take.
send_buffers_remainder(outcome) ==
    /\ obj = "live"
    /\ call' = Call("send", outcome, None)
    /\ trace' = <<"write">>
    /\ output_buf' = IF outcome \in {"partial", "wouldblock"}
                     THEN Append(output_buf, "a") ELSE output_buf
    /\ UNCHANGED <<obj, fd, state, input_buf, revents, registered, sockbuf,
                   wire, sockShut, shutCalled, msgs, clean, delivered, stream,
                   openFiles, fdCloses>>

send(outcome) ==
    /\ obj = "live"
    /\ call' = Call("send", outcome, None)
    /\ trace' = <<"write">>
    /\ UNCHANGED <<obj, fd, state, input_buf, output_buf, revents, registered, sockbuf,
                   wire, sockShut, shutCalled, msgs, clean, delivered, stream, openFiles, fdCloses>>

read_buf(err) ==
    /\ obj = "live"
    /\ LET r == BufferRead(input_buf, sockbuf, err)
           d == BufferDrain(r.buf)
       IN /\ input_buf' = d.buf
          /\ sockbuf' = r.sock
          /\ delivered' = delivered \o d.ret
          /\ call' = Call("read_buf", "none", Some(d.ret))
    /\ trace' = <<"read">>
    /\ clean' = FALSE
    /\ msgs' = <<>>
    /\ UNCHANGED <<obj, fd, state, output_buf, revents, registered, wire, sockShut,
                   shutCalled, stream, openFiles, fdCloses>>

\* read_msg draining the buffer, as read_buf does, when it returns no message.
read_msg_drops_partial(buf, sock, err) ==
    LET r == BufferRead(buf, sock, err)
    IN IF r.res = Some(0) \/ r.res = None
       THEN [ret |-> None, buf |-> <<>>, sock |-> r.sock, res |-> r.res]
       ELSE LET l == get_crlf_line(r.buf)
            IN [ret |-> l.ret, buf |-> IF l.ret = None THEN <<>> ELSE l.buf,
                sock |-> r.sock, res |-> r.res]

\* Connection::read_msg as a function of the buffer, the bytes on the
\* descriptor and whether the read fails.
read_msg(buf, sock, err) ==
    LET r == BufferRead(buf, sock, err)
    IN IF r.res = Some(0) \/ r.res = None
       THEN [ret |-> None, buf |-> r.buf, sock |-> r.sock, res |-> r.res]
       ELSE LET l == get_crlf_line(r.buf)
            IN [ret |-> l.ret, buf |-> l.buf, sock |-> r.sock, res |-> r.res]

ReadMsg(err) ==
    /\ obj = "live"
    /\ LET r == read_msg(input_buf, sockbuf, err)
       IN /\ input_buf' = r.buf
          /\ sockbuf' = r.sock
          /\ delivered' = IF r.ret = None THEN delivered
                          ELSE delivered \o r.ret[1] \o <<CR, LF>>
          /\ call' = Call("read_msg", "none", r.ret)
          /\ clean' = (clean /\ r.res # None)
          /\ msgs' = IF clean /\ r.res # None /\ Len(msgs) < MaxReads
                     THEN Append(msgs, [ret |-> r.ret, done |-> wire = <<>>,
                                        kept |-> r.buf])
                     ELSE IF clean /\ r.res # None THEN msgs ELSE <<>>
    /\ trace' = <<"read">>
    /\ UNCHANGED <<obj, fd, state, output_buf, revents, registered, wire, sockShut,
                   shutCalled, stream, openFiles, fdCloses>>

\* Drop for Connection: F_GETFL on an open descriptor yields its status
\* flags, which are never negative.
FdFlags == {0, 2, 2050}

Drop(flags, ok) ==
    /\ obj = "live"
    /\ obj' = "released"
    /\ LET s == shutdown(ok)
       IN IF 0 > flags
          THEN /\ state' = s.state
               /\ sockShut' = s.shut
               /\ trace' = <<"fcntl">> \o s.trace
          ELSE /\ trace' = <<"fcntl">>
               /\ UNCHANGED <<state, sockShut>>
    /\ call' = Call("drop", "none", None)
    /\ UNCHANGED <<fd, input_buf, output_buf, revents, registered, sockbuf, wire,
                   shutCalled, msgs, clean, delivered, stream, openFiles, fdCloses>>

----------------------------------------------------------------------------
(* The peer *)

\* The peer's next n bytes reach the descriptor.
Arrive(n) ==
    /\ n \in 1 .. Len(wire)
    /\ sockbuf' = sockbuf \o SubSeq(wire, 1, n)
    /\ wire' = SubSeq(wire, n + 1, Len(wire))
    /\ UNCHANGED <<obj, fd, state, input_buf, output_buf, revents, registered,
                   sockShut, shutCalled, call, trace, msgs, clean, delivered, stream, openFiles, fdCloses>>

----------------------------------------------------------------------------
(* Specifications *)

Bytes == {"a", CR, LF}

RECURSIVE SeqsUpTo(_)
SeqsUpTo(n) ==
    IF n = 0 THEN {<<>>}
    ELSE LET shorter == SeqsUpTo(n - 1)
         IN shorter \cup {Append(s, b) : s \in {t \in shorter : Len(t) = n - 1}, b \in Bytes}

GetHost == <<"G", "E", "T", " ", "/", CR, LF, "H", "O", "S", "T", CR, LF>>

Streams == {<<>>, <<"a">>}

IOStreams == SeqsUpTo(MaxLen) \cup {GetHost, <<"a", CR, LF>>, <<"a", CR, LF, CR, LF>>}

InAndHup == BitOr(EPOLLIN, EPOLLHUP)

RevInputs == {0, InAndHup}

InitWith(S) ==
    /\ obj = "none"
    /\ fd = 0 - 1
    /\ state = "Closed"
    /\ input_buf = <<>>
    /\ output_buf = <<>>
    /\ revents = 0
    /\ registered = {}
    /\ sockbuf = <<>>
    /\ stream \in S
    /\ wire = stream
    /\ sockShut = FALSE
    /\ shutCalled = FALSE
    /\ call = NoCall
    /\ trace = <<>>
    /\ msgs = <<>>
    /\ clean = TRUE
    /\ delivered = <<>>
    /\ openFiles = 0
    /\ fdCloses = 0

Init == InitWith(Streams)

Next ==
    \/ \E f \in RawFds, k \in Kinds : NewRaw(f, k)
    \/ \E so \in BOOLEAN, f \in SockFds, ao \in BOOLEAN, o \in ConnectOutcomes,
          e \in BOOLEAN : Connect(so, f, ao, o, e)
    \/ \E ao \in BOOLEAN, f \in SockFds : Accept(ao, f)
    \/ \E m \in RevInputs : set_revents(m)
    \/ \E m \in Masks, err \in BOOLEAN : Dispatch(m, err)
    \/ register_read
    \/ \E ok \in BOOLEAN : Shutdown(ok)
    \/ \E ok \in BOOLEAN : deregister(ok)
    \/ \E o \in WriteOutcomes : send(o)
    \/ \E p \in FilePerms, n \in FileSizes, k \in FileSizes, ok \in BOOLEAN :
          SendFile(p, n, k, ok)
    \/ \E err \in BOOLEAN : read_buf(err)
    \/ \E err \in BOOLEAN : ReadMsg(err)
    \/ \E fl \in FdFlags, ok \in BOOLEAN : Drop(fl, ok)
    \/ \E n \in 1 .. (MaxLen + 1) : Arrive(n)

Spec == Init /\ [][Next]_vars

\* The input path alone, over a wider set of peer streams.
IOMasks == {0, EPOLLIN, EPOLLPRI, EPOLLHUP, InAndHup, EPOLLERR}

InitIO == InitWith(IOStreams)

NextIO ==
    \/ NewRaw(1, "connected")
    \/ \E m \in IOMasks, err \in BOOLEAN : Dispatch(m, err)
    \/ \E err \in BOOLEAN : read_buf(err)
    \/ \E err \in BOOLEAN : ReadMsg(err)
    \/ \E n \in 1 .. Len(GetHost) : Arrive(n)

SpecIO == InitIO /\ [][NextIO]_vars

----------------------------------------------------------------------------
(* Helpers of the properties *)

\* Bit b (a power of two) of mask m, read off by division.
HasBit(m, b) == (m \div b) % 2 = 1

Range(s) == {s[i] : i \in 1 .. Len(s)}

ClosedMarks == {"state:=Closed (error)", "state:=Closed (close)"}

\* s scanned left to right: the CRLF-terminated lines it holds, and the
\* unterminated bytes after the last of them.
RECURSIVE SplitCrlf(_, _, _)
SplitCrlf(s, cur, acc) ==
    IF s = <<>> THEN [lines |-> acc, rest |-> cur]
    ELSE IF Len(s) >= 2 /\ s[1] = CR /\ s[2] = LF
         THEN SplitCrlf(Tail(Tail(s)), <<>>, Append(acc, cur))
    ELSE SplitCrlf(Tail(s), Append(cur, s[1]), acc)

Split(s) == SplitCrlf(s, <<>>, <<>>)

IsPrefix(p, s) == Len(p) <= Len(s) /\ SubSeq(s, 1, Len(p)) = p

----------------------------------------------------------------------------
(* Properties *)

\* C1: once a live Connection is Closed, connected() stays false over every
\* later operation, a further dispatch() with any mask included.
C1_ClosedIsPermanent ==
    [][(obj = "live" /\ ~connected) => ~connected']_vars

\* C2: a dispatch() whose mask has the error bit set returns Closed and
\* leaves the state Closed, whatever the other bits and the state before.
C2_ErrorBitCloses ==
    (call.op = "dispatch" /\ HasBit(call.mask, EPOLLERR))
        => (state = "Closed" /\ call.st = "Closed")

\* C2 witness: a dispatch() with the error and input-ready bits set and the
\* hangup bit clear has read the descriptor and left the state Closed.
C2_Witness ==
    /\ call.op = "dispatch"
    /\ HasBit(call.mask, EPOLLERR)
    /\ HasBit(call.mask, EPOLLIN)
    /\ ~HasBit(call.mask, EPOLLHUP)
    /\ "read" \in Range(trace)
    /\ state = "Closed"

\* C3: a dispatch() whose mask has hangup set and neither input-ready nor
\* priority-data set returns Closed and leaves the state Closed.
C3_HangupUnreadableCloses ==
    (call.op = "dispatch" /\ HasBit(call.mask, EPOLLHUP)
        /\ ~HasBit(call.mask, EPOLLIN) /\ ~HasBit(call.mask, EPOLLPRI))
        => (state = "Closed" /\ call.st = "Closed")

\* C3 witness: a dispatch() with hangup set and the error, input-ready and
\* priority-data bits clear has left the state Closed without a read.
C3_Witness ==
    /\ call.op = "dispatch"
    /\ HasBit(call.mask, EPOLLHUP)
    /\ ~HasBit(call.mask, EPOLLERR)
    /\ ~HasBit(call.mask, EPOLLIN)
    /\ ~HasBit(call.mask, EPOLLPRI)
    /\ "read" \notin Range(trace)
    /\ state = "Closed"

\* C4: in a dispatch() whose mask has hangup and readable set, the read of
\* the descriptor into the input buffer comes before every assignment of
\* Closed of that call.
C4_ReadBeforeClose ==
    (call.op = "dispatch" /\ HasBit(call.mask, EPOLLHUP)
        /\ (HasBit(call.mask, EPOLLIN) \/ HasBit(call.mask, EPOLLPRI)))
        => \E i \in 1 .. Len(trace) :
              /\ trace[i] = "read"
              /\ \A j \in 1 .. Len(trace) : trace[j] \in ClosedMarks => i < j

\* C4 witness: a dispatch() with hangup and priority data set read bytes of
\* the peer into the input buffer and then assigned Closed.
C4_Witness ==
    /\ call.op = "dispatch"
    /\ HasBit(call.mask, EPOLLHUP)
    /\ HasBit(call.mask, EPOLLPRI)
    /\ input_buf # <<>>
    /\ ClosedMarks \cap Range(trace) # {}
    /\ state = "Closed"

\* C5: a Connection released with no shutdown() and no deregister() call
\* before has had shutdown() invoked by the release: the state is Closed
\* and the shutdown syscall was issued.
C5_ReleaseShutsDown ==
    (obj = "released" /\ ~shutCalled)
        => (state = "Closed" /\ Range(trace) \cap {"shutdown_ok", "shutdown_err"} # {})

\* C6: when the peer has sent k complete CRLF-terminated lines and nothing
\* more before the first read_msg(), the i-th of successive read_msg() calls
\* returns line i for i <= k, and no message after that.
C6_LinesInOrder ==
    LET sp == Split(stream)
    IN (clean /\ sp.rest = <<>> /\ msgs # <<>> /\ msgs[1].done)
          => \A i \in 1 .. Len(msgs) :
                msgs[i].ret = IF i <= Len(sp.lines) THEN Some(sp.lines[i]) ELSE None

\* C7: a read_msg() that finds no CRLF in what the buffer and the descriptor
\* hold returns no message and keeps those bytes; one whose refill brings
\* bytes that complete a line returns that whole line and keeps the rest;
\* and every byte of the peer is delivered, buffered, on the descriptor or
\* still to come, exactly once.
C7_PartialLineKept ==
    [][\A e \in BOOLEAN :
         (call'.op = "read_msg" /\ ReadMsg(e))
            => LET avail == input_buf \o sockbuf
                   sp == Split(avail)
               IN /\ sp.lines = <<>>
                       => (call'.msg = None /\ input_buf' \o sockbuf' = avail)
                  /\ (~e /\ sockbuf # <<>> /\ sp.lines # <<>>)
                       => /\ call'.msg = Some(sp.lines[1])
                          /\ input_buf' = SubSeq(avail, Len(sp.lines[1]) + 3, Len(avail))
                  /\ delivered' \o input_buf' \o sockbuf' \o wire' = stream]_vars

\* C7 witness: a read_msg() returned no message and kept partial bytes, and
\* the next one returned a line that starts with those bytes and goes on.
C7_Witness ==
    /\ Len(msgs) >= 2
    /\ msgs[1].ret = None
    /\ msgs[1].kept # <<>>
    /\ msgs[2].ret # None
    /\ IsPrefix(msgs[1].kept, msgs[2].ret[1])
    /\ Len(msgs[2].ret[1]) > Len(msgs[1].kept)

\* C8: connect() returns a Connection in state Ready whenever the socket was
\* created and the connect syscall was issued, whether it succeeded or not.
C8_ConnectAlwaysConstructs ==
    (call.op = "connect" /\ Range(trace) \cap {"connect_ok", "connect_err"} # {})
        => (obj = "live" /\ state = "Ready")

\* C9: constructing from a raw descriptor that is 0 or negative fails at the
\* precondition and produces no Connection, with no address query made.
C9_NonPositiveFdRejected ==
    [][\A f \in RawFds, k \in Kinds :
         (f <= 0 /\ NewRaw(f, k))
            => (obj' = "panicked" /\ trace' = <<"assert">>)]_vars

\* C9 witness: a construction from a raw descriptor stopped at the assertion.
C9_Witness ==
    /\ call.op = "new"
    /\ obj = "panicked"
    /\ trace = <<"assert">>

\* C10: right after a successful construction the state is Ready,
\* connected() is true, both buffers are empty and the stored mask is empty.
C10_FreshConnection ==
    (call.op \in {"new", "connect", "accept"} /\ call.st = "ok")
        => /\ state = "Ready"
           /\ connected
           /\ input_buf = <<>>
           /\ output_buf = <<>>
           /\ \A b \in {EPOLLIN, EPOLLPRI, EPOLLOUT, EPOLLERR, EPOLLHUP} : ~HasBit(revents, b)

\* C10 witness: a construction from a raw descriptor has succeeded and bytes
\* of the peer already wait on the descriptor.
C10_Witness ==
    /\ call.op = "new"
    /\ call.st = "ok"
    /\ obj = "live"
    /\ sockbuf # <<>>

\* C11: every shutdown() call leaves the state Closed and returns normally,
\* whether the shutdown syscall succeeds or fails, also when repeated.
C11_ShutdownAlwaysCloses ==
    call.op = "shutdown" => (state = "Closed" /\ obj = "live")

\* C11 witness: a shutdown() whose syscall failed on a socket that an
\* earlier call had already shut down has left the state Closed.
C11_Witness ==
    /\ call.op = "shutdown"
    /\ "shutdown_err" \in Range(trace)
    /\ sockShut
    /\ state = "Closed"

\* C12: deregister() asks the reactor to remove the registration before it
\* issues the shutdown; when it returns the reactor holds no registration
\* for the descriptor and the state is Closed.
C12_DeregisterThenShutdown ==
    call.op = "deregister"
        => /\ fd \notin registered
           /\ state = "Closed"
           /\ trace[1] \in {"deregister (registered)", "deregister (absent)"}
           /\ \E i \in 2 .. Len(trace) : trace[i] \in {"shutdown_ok", "shutdown_err"}

\* C12 witness: a deregister() found the descriptor registered, removed it
\* and then shut the socket down.
C12_Witness ==
    /\ call.op = "deregister"
    /\ trace = <<"deregister (registered)", "state:=Closed", "shutdown_ok">>
    /\ registered = {}
    /\ sockShut

\* C13: send_file() on a file the process may read but not write succeeds
\* and returns the number of bytes transferred.
C13_SendFileReadOnly ==
    (call.op = "send_file" /\ "file ro" \in Range(trace))
        => (call.st = "ok" /\ obj = "live")

\* C20: when a send_file() call has returned, every file descriptor it
\* opened is closed again.
C20_SendFileLeaksNothing ==
    (call.op = "send_file" /\ call.st = "ok") => openFiles = 0

\* C14: after every dispatch(mask) the stored readiness mask, the value
\* get_revents() returns, is the mask that dispatch was given.
C14_DispatchStoresMask ==
    call.op = "dispatch" => revents = call.mask

\* C15: when a Connection has been released, the descriptor it owned has
\* been closed exactly once.
C15_DescriptorClosedOnce ==
    obj = "released" => fdCloses = 1

\* C16: once the socket of a Connection has been shut down, or the
\* Connection has been released, the reactor holds no registration for its
\* descriptor.
C16_NoRegistrationAfterTeardown ==
    ((obj = "live" /\ sockShut) \/ obj = "released") => fd \notin registered

\* C19: a dispatch() whose readable branch ran, for a mask without the error
\* bit, returns Ready and not Closed.
C19_ReadableNeverCloses ==
    (call.op = "dispatch" /\ "read" \in Range(trace) /\ ~HasBit(call.mask, EPOLLERR))
        => (call.st = "Ready" /\ state = "Ready")

\* C17: a send() issues one write on the descriptor and, whatever the write
\* does (full, partial, would-block, error), leaves the state, the input
\* buffer and the output buffer as they were.
C17_SendChangesNothing ==
    [][\A o \in WriteOutcomes :
         (call'.op = "send" /\ send(o))
            => /\ trace' = <<"write">>
               /\ state' = state
               /\ input_buf' = input_buf
               /\ output_buf' = output_buf]_vars

\* C17 witness: a send() whose write was partial has returned with bytes in
\* the input buffer and nothing in the output buffer.
C17_Witness ==
    /\ call.op = "send"
    /\ call.st = "partial"
    /\ input_buf # <<>>
    /\ output_buf = <<>>
    /\ obj = "live"

\* C18: a dispatch() given the mask of the dispatch() just before it, with
\* nothing on the descriptor for its read to find, returns the state the
\* first returned and leaves the input buffer as the first left it.
C18_DispatchIdempotent ==
    [][\A e \in BOOLEAN :
         (/\ call.op = "dispatch"
          /\ call'.op = "dispatch"
          /\ call'.mask = call.mask
          /\ (HasBit(call.mask, EPOLLIN) \/ HasBit(call.mask, EPOLLPRI)) => sockbuf = <<>>
          /\ Dispatch(call.mask, e))
            => /\ call'.st = call.st
               /\ state' = state
               /\ input_buf' = input_buf
               /\ sockbuf' = sockbuf]_vars

\* C18 witness: a dispatch() with the input-ready bit repeated the one
\* before it, with bytes of the peer in the input buffer and none left on
\* the descriptor.
C18_Witness ==
    /\ call.op = "dispatch"
    /\ call.again
    /\ HasBit(call.mask, EPOLLIN)
    /\ input_buf # <<>>
    /\ sockbuf = <<>>

=============================================================================
